---- MODULE Spec2Model ----
(***************************************************************************)
(* State-machine model of the ICP name service canister (src/src/index.ts, *)
(* first canister definition, lines 1-413): the three stable maps, the     *)
(* canister owner, the four update calls and the environment clock.        *)
(*                                                                         *)
(* Texts are sequences of one-character strings.  nat64 values (durations  *)
(* and ic.time() timestamps) are pairs <<hi, lo>> that stand for           *)
(* hi * 10^9 + lo, so that MAX_DURATION keeps its value from the source.   *)
(***************************************************************************)
EXTENDS Integers, Sequences, FiniteSets, TLC

VARIABLES
    owner,                   \* let owner: Principal (line 58)
    domainsStorage,          \* StableBTreeMap<text, Domain> (line 60)
    domainHistoryStorage,    \* StableBTreeMap<text, Vec<History>> (line 61)
    reservedDomainsStorage,  \* StableBTreeMap<text, Principal> (line 62)
    now,                     \* the value ic.time() returns
    ticks,                   \* how many times the clock has advanced
    last,                    \* the last call that returned Ok: method, caller, result
    committed,               \* per key, how many claim, revoke and transfer calls returned Ok
    pending                  \* the running call and the writes it has still to make

vars == <<owner, domainsStorage, domainHistoryStorage, reservedDomainsStorage,
          now, ticks, last, committed, pending>>

----------------------------------------------------------------------------
(* nat64 arithmetic on <<hi, lo>> pairs                                     *)

Base == 10^9

N64(hi, lo) == <<hi, lo>>

Zero64 == N64(0, 0)

Plus(a, b) ==
    LET s == a[2] + b[2]
    IN  N64(a[1] + b[1] + (s \div Base), s % Base)

Pred(a) == IF a[2] > 0 THEN N64(a[1], a[2] - 1) ELSE N64(a[1] - 1, Base - 1)

Succ(a) == Plus(a, N64(0, 1))

LT(a, b) == a[1] < b[1] \/ (a[1] = b[1] /\ a[2] < b[2])

GT(a, b) == LT(b, a)

LE(a, b) == ~LT(b, a)

GE(a, b) == ~LT(a, b)

----------------------------------------------------------------------------
(* Program constants                                                       *)

Txt_icp == <<"i", "c", "p">>

Txt_ic == <<"i", "c">>

Txt_moon == <<"m", "o", "o", "n">>

SUPPORTED_EXTENSIONS == <<Txt_icp, Txt_ic, Txt_moon>>

MIN_DOMAIN_NAME_LENGTH == 3

MAX_DOMAIN_NAME_LENGTH == 40

\* 1_000_000n
MIN_DURATION == N64(0, 1000000)

\* 31_536_000_000_000_000n
MAX_DURATION == N64(31536000, 0)

----------------------------------------------------------------------------
(* Bounds of the model and the inputs the calls are tried with             *)

MaxTicks == 2

MaxHistory == 2

Principals == {"admin", "alice", "bob"}

\* the identity that deployed the canister (ic.caller() of init)
Deployer == "admin"

\* the instant of deployment: a positive number of nanoseconds since the epoch
StartTime == N64(1700000000, 0)

Txt_ab == <<"a", "b">>

Txt_abc == <<"a", "b", "c">>

Txt_a_b == <<"a", ".", "b">>

Txt_com == <<"c", "o", "m">>

NameInputs == {Txt_ab, Txt_abc, Txt_a_b}

ExtensionInputs == {Txt_icp, Txt_com}

DurationInputs == {Pred(MIN_DURATION), MIN_DURATION, MAX_DURATION, Succ(MAX_DURATION)}

ClockSteps == {MIN_DURATION}

----------------------------------------------------------------------------
(* Maps (StableBTreeMap) as functions over the set of keys they hold       *)

containsKey(map, key) == key \in DOMAIN map

insert(map, key, value) ==
    [k \in DOMAIN map \cup {key} |-> IF k = key THEN value ELSE map[k]]

remove(map, key) == [k \in DOMAIN map \ {key} |-> map[k]]

EmptyMap == [k \in {} |-> 0]

----------------------------------------------------------------------------
(* Results                                                                 *)

Ok(value) == [variant |-> "Ok", value |-> value]

Err(variant, value) == [variant |-> variant, value |-> value]

IsOk(ret) == ret.variant = "Ok"

IsErr(ret) == ret.variant # "Ok"

Is(ret, variant, value) == ret.variant = variant /\ ret.value = value

----------------------------------------------------------------------------
(* Key validation helpers (lines 353-384)                                  *)

isDomainNameValid(name) ==
    Len(name) >= MIN_DOMAIN_NAME_LENGTH /\ Len(name) <= MAX_DOMAIN_NAME_LENGTH

isDomainExtensionValid(extension) ==
    \E i \in DOMAIN SUPPORTED_EXTENSIONS : SUPPORTED_EXTENSIONS[i] = extension

getDomainKey(name, extension) == name \o <<".">> \o extension

\* the value of a destructured array element that does not exist
undefined == <<"undefined">>

\* String.prototype.split("."): every maximal piece between separators
RECURSIVE split(_)
split(s) ==
    IF \A i \in DOMAIN s : s[i] # "."
    THEN <<s>>
    ELSE LET i == CHOOSE j \in DOMAIN s :
                      s[j] = "." /\ \A m \in 1..(j - 1) : s[m] # "."
         IN  <<SubSeq(s, 1, i - 1)>> \o split(SubSeq(s, i + 1, Len(s)))

isDomainKeyValid(domainKey) ==
    LET parts == split(domainKey)
        name == parts[1]
        extension == IF Len(parts) >= 2 THEN parts[2] ELSE undefined
    IN  isDomainNameValid(name) /\ isDomainExtensionValid(extension)

----------------------------------------------------------------------------
(* What a call leaves behind: its return value and the three maps          *)

Outcome(ret, domains, history, reserved) ==
    [ret |-> ret, domains |-> domains, history |-> history, reserved |-> reserved]

\* an early return: nothing has been written yet
Return(ret) ==
    Outcome(ret, domainsStorage, domainHistoryStorage, reservedDomainsStorage)

----------------------------------------------------------------------------
(* updateHistoryRecord (lines 392-413): the history map after the append   *)

\* mutant: the stored history is replaced by the new entry
updateHistoryRecord_Overwrite(domainKey, entryOwner, validUntil) ==
    insert(domainHistoryStorage, domainKey,
           <<[owner |-> entryOwner, validUntil |-> validUntil, createdAt |-> now]>>)

\* mutant: the new entry is put in front of the stored entries
updateHistoryRecord_NewestFirst(domainKey, entryOwner, validUntil) ==
    LET historyRecord == [owner |-> entryOwner,
                          validUntil |-> validUntil,
                          createdAt |-> now]
        newHistory == IF containsKey(domainHistoryStorage, domainKey)
                      THEN <<historyRecord>> \o domainHistoryStorage[domainKey]
                      ELSE <<historyRecord>>
    IN  insert(domainHistoryStorage, domainKey, newHistory)

updateHistoryRecord(domainKey, entryOwner, validUntil) ==
    LET historyRecord == [owner |-> entryOwner,
                          validUntil |-> validUntil,
                          createdAt |-> now]
        newHistory == IF containsKey(domainHistoryStorage, domainKey)
                      THEN Append(domainHistoryStorage[domainKey], historyRecord)
                      ELSE <<historyRecord>>
    IN  insert(domainHistoryStorage, domainKey, newHistory)

----------------------------------------------------------------------------
(* reserve (lines 87-115)                                                  *)

\* mutant: the comparison of line 89 the wrong way round
reserveCallerDenied_Inverted(caller) == owner = caller

\* line 89: the caller is not the owner of the canister
reserveCallerDenied(caller) == owner # caller

\* mutant: only a record that has not expired bars the reservation
reserveDomainStored_ActiveOnly(domainKey) ==
    /\ containsKey(domainsStorage, domainKey)
    /\ GE(domainsStorage[domainKey].validUntil, now)

\* mutant: a revoked record (validUntil 0) does not bar the reservation
reserveDomainStored_RevokedFree(domainKey) ==
    /\ containsKey(domainsStorage, domainKey)
    /\ domainsStorage[domainKey].validUntil # Zero64

\* lines 105-110: a record is stored under the key, whatever its validUntil
reserveDomainStored(domainKey) == containsKey(domainsStorage, domainKey)

reserve(caller, payload) ==
    IF reserveCallerDenied(caller)
    THEN Return(Err("CallerNotCanisterOwner", caller))
    ELSE IF ~isDomainNameValid(payload.name)
    THEN Return(Err("InvalidDomainNameLength", Len(payload.name)))
    ELSE IF ~isDomainExtensionValid(payload.extension)
    THEN Return(Err("InvalidDomainExtension", payload.extension))
    ELSE LET domainKey == getDomainKey(payload.name, payload.extension)
         IN  IF reserveDomainStored(domainKey)
             THEN Return(Err("DomainAlreadyClaimed", domainsStorage[domainKey].owner))
             ELSE Outcome(Ok(domainKey),
                          domainsStorage,
                          domainHistoryStorage,
                          insert(reservedDomainsStorage, domainKey, payload.wallet))

----------------------------------------------------------------------------
(* claim (lines 123-179)                                                   *)

\* mutant: the two bounds themselves rejected
claimDurationInvalid_Exclusive(duration) ==
    LE(duration, MIN_DURATION) \/ GE(duration, MAX_DURATION)

\* line 126
claimDurationInvalid(duration) ==
    LT(duration, MIN_DURATION) \/ GT(duration, MAX_DURATION)

\* mutant: any stored record bars the claim, expired or not
claimDomainStillOwned_AnyRecord(domainKey) ==
    containsKey(domainsStorage, domainKey)

\* mutant: > where line 147 has >=
claimDomainStillOwned_Strict(domainKey) ==
    /\ containsKey(domainsStorage, domainKey)
    /\ GT(domainsStorage[domainKey].validUntil, now)

\* lines 143-150: a record is stored and its ownership has not expired
claimDomainStillOwned(domainKey) ==
    /\ containsKey(domainsStorage, domainKey)
    /\ GE(domainsStorage[domainKey].validUntil, now)

\* mutant: the reservation is removed before the reserved identity is checked
claimReservation_RemoveFirst(domainKey, caller) ==
    IF containsKey(reservedDomainsStorage, domainKey)
    THEN [returns |-> reservedDomainsStorage[domainKey] # caller,
          err |-> Err("DomainReserved", reservedDomainsStorage[domainKey]),
          reserved |-> remove(reservedDomainsStorage, domainKey)]
    ELSE [returns |-> FALSE,
          err |-> Err("none", caller),
          reserved |-> reservedDomainsStorage]

\* mutant: claim does not look at the reservations
claimReservation_Ignored(domainKey, caller) ==
    [returns |-> FALSE,
     err |-> Err("none", caller),
     reserved |-> reservedDomainsStorage]

\* mutant: a reservation bars every caller, the reserved identity included
claimReservation_BarsAll(domainKey, caller) ==
    IF containsKey(reservedDomainsStorage, domainKey)
    THEN [returns |-> TRUE,
          err |-> Err("DomainReserved", reservedDomainsStorage[domainKey]),
          reserved |-> reservedDomainsStorage]
    ELSE [returns |-> FALSE,
          err |-> Err("none", caller),
          reserved |-> reservedDomainsStorage]

\* mutant: the reservation of the caller is left in place (line 160 missing)
claimReservation_Kept(domainKey, caller) ==
    IF containsKey(reservedDomainsStorage, domainKey)
       /\ reservedDomainsStorage[domainKey] # caller
    THEN [returns |-> TRUE,
          err |-> Err("DomainReserved", reservedDomainsStorage[domainKey]),
          reserved |-> reservedDomainsStorage]
    ELSE [returns |-> FALSE,
          err |-> Err("none", caller),
          reserved |-> reservedDomainsStorage]

\* lines 153-161: the reservation branch; err is the early return it takes,
\* if any, and reserved is the reservations map it leaves
claimReservation(domainKey, caller) ==
    IF containsKey(reservedDomainsStorage, domainKey)
    THEN IF reservedDomainsStorage[domainKey] # caller
         THEN [returns |-> TRUE,
               err |-> Err("DomainReserved", reservedDomainsStorage[domainKey]),
               reserved |-> reservedDomainsStorage]
         ELSE [returns |-> FALSE,
               err |-> Err("none", caller),
               reserved |-> remove(reservedDomainsStorage, domainKey)]
    ELSE [returns |-> FALSE,
          err |-> Err("none", caller),
          reserved |-> reservedDomainsStorage]

\* lines 164-169
claimNewDomain(domainKey, caller, duration) ==
    [id |-> domainKey,
     owner |-> caller,
     validUntil |-> Plus(now, duration),
     updatedAt |-> now]

claim(caller, payload) ==
    IF claimDurationInvalid(payload.duration)
    THEN Return(Err("InvalidDuration", payload.duration))
    ELSE IF ~isDomainNameValid(payload.name)
    THEN Return(Err("InvalidDomainNameLength", Len(payload.name)))
    ELSE IF ~isDomainExtensionValid(payload.extension)
    THEN Return(Err("InvalidDomainExtension", payload.extension))
    ELSE LET domainKey == getDomainKey(payload.name, payload.extension)
         IN  IF claimDomainStillOwned(domainKey)
             THEN Return(Err("DomainAlreadyClaimed", domainsStorage[domainKey].owner))
             ELSE LET r == claimReservation(domainKey, caller)
                  IN  IF r.returns
                      THEN Outcome(r.err, domainsStorage, domainHistoryStorage,
                                   r.reserved)
                      ELSE LET newDomain ==
                                   claimNewDomain(domainKey, caller, payload.duration)
                           IN  Outcome(Ok(domainKey),
                                       insert(domainsStorage, domainKey, newDomain),
                                       updateHistoryRecord(domainKey, caller,
                                                           newDomain.validUntil),
                                       r.reserved)

----------------------------------------------------------------------------
(* revoke (lines 205-236)                                                  *)

\* lines 213-218: a caller who is not the owner, on a record still valid
\* mutant: the owner test of line 215 the wrong way round
revokeDenied_OwnerInverted(domain, caller) ==
    domain.owner = caller /\ GT(domain.validUntil, now)

revokeDenied(domain, caller) ==
    domain.owner # caller /\ GT(domain.validUntil, now)

\* mutant: validUntil set to ic.time() instead of 0n
revokeNewDomain_ValidUntilNow(domainKey, domain) ==
    [id |-> domainKey,
     owner |-> domain.owner,
     validUntil |-> now,
     updatedAt |-> now]

\* lines 221-226
revokeNewDomain(domainKey, domain) ==
    [id |-> domainKey,
     owner |-> domain.owner,
     validUntil |-> Zero64,
     updatedAt |-> now]

\* line 229: the identity the history entry of a revoke names
revokeHistoryOwner(domain, caller) == caller

revoke(caller, domainKey) ==
    IF ~isDomainKeyValid(domainKey)
    THEN Return(Err("InvalidDomainKey", domainKey))
    ELSE IF containsKey(domainsStorage, domainKey)
    THEN LET domain == domainsStorage[domainKey]
         IN  IF revokeDenied(domain, caller)
             THEN Return(Err("DomainStillValid", domain.owner))
             ELSE LET newDomain == revokeNewDomain(domainKey, domain)
                  IN  Outcome(Ok(domainKey),
                              insert(domainsStorage, domainKey, newDomain),
                              updateHistoryRecord(domainKey,
                                                  revokeHistoryOwner(domain, caller),
                                                  newDomain.validUntil),
                              reservedDomainsStorage)
    ELSE Return(Err("DomainNotFound", domainKey))

----------------------------------------------------------------------------
(* transfer (lines 245-277)                                                *)

\* mutant: the owner test of line 253 left out
transferCallerDenied_Nobody(domain, caller) == FALSE

\* line 253
transferCallerDenied(domain, caller) == domain.owner # caller

\* line 258
transferExpired(domain) == LT(domain.validUntil, now)

\* mutant: updatedAt copied from the old record instead of ic.time()
transferNewDomain_StaleUpdatedAt(domainKey, domain, newOwner) ==
    [id |-> domainKey,
     owner |-> newOwner,
     validUntil |-> domain.validUntil,
     updatedAt |-> domain.updatedAt]

\* lines 263-268
transferNewDomain(domainKey, domain, newOwner) ==
    [id |-> domainKey,
     owner |-> newOwner,
     validUntil |-> domain.validUntil,
     updatedAt |-> now]

transfer(caller, domainKey, newOwner) ==
    IF ~isDomainKeyValid(domainKey)
    THEN Return(Err("InvalidDomainKey", domainKey))
    ELSE IF containsKey(domainsStorage, domainKey)
    THEN LET domain == domainsStorage[domainKey]
         IN  IF transferCallerDenied(domain, caller)
             THEN Return(Err("CallerNotDomainOwner", caller))
             ELSE IF transferExpired(domain)
             THEN Return(Err("DomainOwnershipExpired", domain.owner))
             ELSE LET newDomain == transferNewDomain(domainKey, domain, newOwner)
                  IN  Outcome(Ok(domainKey),
                              insert(domainsStorage, domainKey, newDomain),
                              updateHistoryRecord(domainKey, newOwner,
                                                  newDomain.validUntil),
                              reservedDomainsStorage)
    ELSE Return(Err("DomainNotFound", domainKey))

----------------------------------------------------------------------------
(* The query methods used by the properties: they return a value and write *)
(* nothing                                                                 *)

\* getIsClaimable (lines 186-197)
getIsClaimable(domainKey) ==
    IF ~isDomainKeyValid(domainKey)
    THEN Err("InvalidDomainKey", domainKey)
    ELSE IF containsKey(domainsStorage, domainKey)
         THEN Ok(LT(domainsStorage[domainKey].validUntil, now))
         ELSE Err("DomainNotFound", domainKey)

\* getDomain (lines 284-295)
getDomain(domainKey) ==
    IF ~isDomainKeyValid(domainKey)
    THEN Err("InvalidDomainKey", domainKey)
    ELSE IF containsKey(domainsStorage, domainKey)
         THEN Ok(domainsStorage[domainKey])
         ELSE Err("DomainNotFound", domainKey)

\* getDomainHistory (lines 302-313)
getDomainHistory(domainKey) ==
    IF ~isDomainKeyValid(domainKey)
    THEN Err("InvalidDomainKey", domainKey)
    ELSE IF containsKey(domainHistoryStorage, domainKey)
         THEN Ok(domainHistoryStorage[domainKey])
         ELSE Err("DomainNotFound", domainKey)

\* lookup (lines 320-331)
lookup(domainKey) ==
    IF ~isDomainKeyValid(domainKey)
    THEN Err("InvalidDomainKey", domainKey)
    ELSE IF containsKey(domainsStorage, domainKey)
         THEN Ok(domainsStorage[domainKey].owner)
         ELSE Err("DomainNotFound", domainKey)

\* the characters of the inputs, in the order of their code points
Alphabet == <<".", "a", "b", "c", "i", "m", "n", "o", "p">>

Code(ch) == CHOOSE i \in 1..Len(Alphabet) : Alphabet[i] = ch

\* s comes before t, character by character
RECURSIVE TextBefore(_, _)
TextBefore(s, t) ==
    IF s = <<>> THEN t # <<>>
    ELSE IF t = <<>> THEN FALSE
    ELSE IF Head(s) = Head(t) THEN TextBefore(Tail(s), Tail(t))
    ELSE Code(Head(s)) < Code(Head(t))

\* domainsStorage.values() (line 339): the stored records in the order of
\* their keys
RECURSIVE values(_)
values(map) ==
    IF DOMAIN map = {}
    THEN <<>>
    ELSE LET k == CHOOSE x \in DOMAIN map :
                      \A y \in DOMAIN map \ {x} : TextBefore(x, y)
         IN  <<map[k]>> \o values(remove(map, k))

\* mutant: the owners compared as objects, which never are the same object
reverseLookup_SameObject(user) ==
    Ok(SelectSeq(values(domainsStorage), LAMBDA domain : FALSE))

\* reverseLookup (lines 338-345)
reverseLookup(user) ==
    Ok(SelectSeq(values(domainsStorage), LAMBDA domain : domain.owner = user))

----------------------------------------------------------------------------
(* The state machine                                                       *)

\* keys tried by the calls that take a combined key: the two keys a claim
\* can store, a key whose name is too short and a text with no separator
KeyInputs ==
    {getDomainKey(Txt_abc, Txt_icp), getDomainKey(Txt_a_b, Txt_icp),
     getDomainKey(Txt_ab, Txt_icp), Txt_abc}

ValidNames == {n \in NameInputs : isDomainNameValid(n)}

ValidExtensions == {e \in ExtensionInputs : isDomainExtensionValid(e)}

ValidDurations == {d \in DurationInputs : ~LT(d, MIN_DURATION) /\ ~GT(d, MAX_DURATION)}

\* the durations of the claims the model commits; the properties range over
\* every duration of DurationInputs
CommittedDurations == {MIN_DURATION}

\* the wallets the reservations the model commits are made for; the
\* properties range over every wallet of Principals
ReservedWallets == Principals \ {Deployer}

\* every accepted payload, and one payload for each way of being rejected
ReservePayloads ==
    [name : ValidNames, extension : ValidExtensions, wallet : ReservedWallets]
    \cup {[name |-> Txt_ab, extension |-> Txt_icp, wallet |-> Deployer],
          [name |-> Txt_abc, extension |-> Txt_com, wallet |-> Deployer]}

ClaimPayloads ==
    [name : ValidNames, extension : ValidExtensions, duration : CommittedDurations]
    \cup {[name |-> Txt_ab, extension |-> Txt_icp, duration |-> MIN_DURATION],
          [name |-> Txt_abc, extension |-> Txt_com, duration |-> MIN_DURATION]}
    \cup [name : {Txt_abc}, extension : {Txt_icp},
          duration : DurationInputs \ ValidDurations]

NoCall == [method |-> "init", caller |-> Deployer, ret |-> Ok(<<>>)]

\* no call is running
Idle == [writes |-> <<>>, call |-> NoCall]

\* init (lines 69-71) on an empty canister
Init ==
    /\ owner = Deployer
    /\ domainsStorage = EmptyMap
    /\ domainHistoryStorage = EmptyMap
    /\ reservedDomainsStorage = EmptyMap
    /\ now = StartTime
    /\ ticks = 0
    /\ last = NoCall
    /\ committed = EmptyMap
    /\ pending = Idle

\* the number of history entries stored, over all keys
RECURSIVE Entries(_)
Entries(history) ==
    IF DOMAIN history = {}
    THEN 0
    ELSE LET k == CHOOSE x \in DOMAIN history : TRUE
         IN  Len(history[k]) + Entries(remove(history, k))

\* the histories stay within the bound of the model
WithinBounds(out) == Entries(out.history) <= MaxHistory

\* the calls that end in updateHistoryRecord and domainsStorage.insert
Mutations == {"claim", "revoke", "transfer"}

\* one more successful mutation on the key
Counted(count, domainKey) ==
    insert(count, domainKey,
           IF containsKey(count, domainKey) THEN count[domainKey] + 1 ELSE 1)

\* an update call commits what the handler leaves behind, whatever it returns
Commit(method, caller, out) ==
    /\ WithinBounds(out)
    /\ domainsStorage' = out.domains
    /\ domainHistoryStorage' = out.history
    /\ reservedDomainsStorage' = out.reserved
    /\ last' = IF IsOk(out.ret)
               THEN [method |-> method, caller |-> caller, ret |-> out.ret]
               ELSE last
    /\ committed' = IF IsOk(out.ret) /\ method \in Mutations
                    THEN Counted(committed, out.ret.value)
                    ELSE committed
    /\ UNCHANGED <<owner, now, ticks, pending>>

Reserve ==
    \E caller \in Principals, payload \in ReservePayloads :
        Commit("reserve", caller, reserve(caller, payload))

Claim ==
    \E caller \in Principals, payload \in ClaimPayloads :
        Commit("claim", caller, claim(caller, payload))

Revoke ==
    \E caller \in Principals, domainKey \in KeyInputs :
        Commit("revoke", caller, revoke(caller, domainKey))

Transfer ==
    \E caller \in Principals, domainKey \in KeyInputs, newOwner \in Principals :
        Commit("transfer", caller, transfer(caller, domainKey, newOwner))

\* ic.time() grows between calls
Tick ==
    /\ ticks < MaxTicks
    /\ \E d \in ClockSteps : now' = Plus(now, d)
    /\ ticks' = ticks + 1
    /\ UNCHANGED <<owner, domainsStorage, domainHistoryStorage,
                   reservedDomainsStorage, last, committed, pending>>

Next == Reserve \/ Claim \/ Revoke \/ Transfer \/ Tick

Spec == Init /\ [][Next]_vars

----------------------------------------------------------------------------
(* The same calls with every write to a map a step of its own               *)

\* the write of a map: which map, and what it holds afterwards
Write(map, content) == [map |-> map, content |-> content]

\* mutant: the record is stored before the history entry
claimWrites_RecordFirst(out) ==
    (IF out.reserved # reservedDomainsStorage
     THEN <<Write("reserved", out.reserved)>>
     ELSE <<>>)
    \o <<Write("domains", out.domains), Write("history", out.history)>>

\* the writes of a claim that returns Ok, in the order of lines 160, 172, 174
claimWrites(out) ==
    (IF out.reserved # reservedDomainsStorage
     THEN <<Write("reserved", out.reserved)>>
     ELSE <<>>)
    \o <<Write("history", out.history), Write("domains", out.domains)>>

\* the writes of a revoke that returns Ok, in the order of lines 229, 231
revokeWrites(out) ==
    <<Write("history", out.history), Write("domains", out.domains)>>

\* the writes of a transfer that returns Ok, in the order of lines 270, 272
transferWrites(out) ==
    <<Write("history", out.history), Write("domains", out.domains)>>

\* one write takes effect
Apply(write) ==
    /\ domainsStorage' =
           IF write.map = "domains" THEN write.content ELSE domainsStorage
    /\ domainHistoryStorage' =
           IF write.map = "history" THEN write.content ELSE domainHistoryStorage
    /\ reservedDomainsStorage' =
           IF write.map = "reserved" THEN write.content ELSE reservedDomainsStorage

\* a call starts: one that returns an error has nothing to write; one that
\* returns Ok makes its first write and keeps the others for later
Start(method, caller, out, writes) ==
    /\ pending = Idle
    /\ IF IsErr(out.ret)
       THEN Commit(method, caller, out)
       ELSE /\ WithinBounds(out)
            /\ Apply(Head(writes))
            /\ pending' = [writes |-> Tail(writes),
                           call |-> [method |-> method, caller |-> caller,
                                     ret |-> out.ret]]
            /\ UNCHANGED <<owner, now, ticks, last, committed>>

\* the running call makes its next write, and returns after the last one
Continue ==
    /\ pending # Idle
    /\ Apply(Head(pending.writes))
    /\ IF Len(pending.writes) = 1
       THEN /\ last' = pending.call
            /\ committed' = Counted(committed, pending.call.ret.value)
            /\ pending' = Idle
       ELSE /\ pending' = [pending EXCEPT !.writes = Tail(pending.writes)]
            /\ UNCHANGED <<last, committed>>
    /\ UNCHANGED <<owner, now, ticks>>

ReserveSteps == pending = Idle /\ Reserve

ClaimSteps ==
    \E caller \in Principals, payload \in ClaimPayloads :
        LET out == claim(caller, payload)
        IN  Start("claim", caller, out, claimWrites(out))

RevokeSteps ==
    \E caller \in Principals, domainKey \in KeyInputs :
        LET out == revoke(caller, domainKey)
        IN  Start("revoke", caller, out, revokeWrites(out))

TransferSteps ==
    \E caller \in Principals, domainKey \in KeyInputs, newOwner \in Principals :
        LET out == transfer(caller, domainKey, newOwner)
        IN  Start("transfer", caller, out, transferWrites(out))

\* ic.time() is the same throughout a call
TickSteps == pending = Idle /\ Tick

NextSteps ==
    ReserveSteps \/ ClaimSteps \/ RevokeSteps \/ TransferSteps \/ Continue
        \/ TickSteps

SpecSteps == Init /\ [][NextSteps]_vars

----------------------------------------------------------------------------
(* Vocabulary of the properties                                            *)

\* every combination of the inputs, accepted or not
ReserveInputs ==
    [name : NameInputs, extension : ExtensionInputs, wallet : Principals]

ClaimInputs ==
    [name : NameInputs, extension : ExtensionInputs, duration : DurationInputs]

KeyOf(payload) == getDomainKey(payload.name, payload.extension)

WellFormed(payload) ==
    isDomainNameValid(payload.name) /\ isDomainExtensionValid(payload.extension)

\* the claim payloads that pass the duration, name and extension checks
AcceptableClaims ==
    {p \in ClaimInputs : WellFormed(p) /\ p.duration \in ValidDurations}

\* the call left the three maps as they are
Untouched(out) ==
    /\ out.domains = domainsStorage
    /\ out.history = domainHistoryStorage
    /\ out.reserved = reservedDomainsStorage

Stored(key) == containsKey(domainsStorage, key)

Reserved(key) == containsKey(reservedDomainsStorage, key)

\* Active as the specification defines it: validUntil >= now
Active(key) == Stored(key) /\ GE(domainsStorage[key].validUntil, now)

----------------------------------------------------------------------------
\* C1: whenever reserve, claim, revoke or transfer returns an error, whatever
\* the state, the caller, the time and the input, the three maps it leaves
\* are the maps it found.
C1_ErrorLeavesMapsUntouched ==
    /\ \A c \in Principals, p \in ReserveInputs :
           LET out == reserve(c, p) IN IsErr(out.ret) => Untouched(out)
    /\ \A c \in Principals, p \in ClaimInputs :
           LET out == claim(c, p) IN IsErr(out.ret) => Untouched(out)
    /\ \A c \in Principals, k \in KeyInputs :
           LET out == revoke(c, k) IN IsErr(out.ret) => Untouched(out)
    /\ \A c \in Principals, k \in KeyInputs, n \in Principals :
           LET out == transfer(c, k, n) IN IsErr(out.ret) => Untouched(out)

\* a registry holding a record and a reservation, where a claim is turned
\* down by the last check of claim, the one next to the reservation's removal
C1_Witness ==
    /\ domainsStorage # EmptyMap
    /\ \E c \in Principals, p \in ClaimInputs :
           claim(c, p).ret.variant = "DomainReserved"
    /\ \E c \in Principals, k \in KeyInputs :
           revoke(c, k).ret.variant = "DomainStillValid"

\* C2: no key has a reservation together with an active record (validUntil >=
\* now) whose owner is not the identity the key is reserved for.
C2_NoReservationBesideForeignActiveRecord ==
    \A k \in DOMAIN reservedDomainsStorage :
        Active(k) => domainsStorage[k].owner = reservedDomainsStorage[k]

\* a reservation for one identity while another identity holds an active
\* record in the registry, and the last call was a claim
C2_Witness ==
    /\ last.method = "claim"
    /\ \E k \in DOMAIN reservedDomainsStorage, j \in DOMAIN domainsStorage :
           Active(j) /\ domainsStorage[j].owner # reservedDomainsStorage[k]

\* C3: a claim with a valid duration on a key whose record has validUntil >=
\* now returns DomainAlreadyClaimed with the record's owner, for every caller,
\* the owner included, and leaves the record as it is.
C3_ActiveRecordBlocksClaim ==
    \A c \in Principals, p \in AcceptableClaims :
        Active(KeyOf(p)) =>
            LET out == claim(c, p)
            IN  /\ Is(out.ret, "DomainAlreadyClaimed", domainsStorage[KeyOf(p)].owner)
                /\ out.domains[KeyOf(p)] = domainsStorage[KeyOf(p)]

\* a record at the very instant its validity ends (validUntil = now)
C3_Witness ==
    \E k \in DOMAIN domainsStorage :
        /\ domainsStorage[k].validUntil = now
        /\ \E p \in AcceptableClaims :
               /\ KeyOf(p) = k
               /\ claim(domainsStorage[k].owner, p).ret.variant = "DomainAlreadyClaimed"

\* the claim inputs that name the key
ClaimsOn(key) == {p \in ClaimInputs : WellFormed(p) /\ KeyOf(p) = key}

\* C4 as stated: while a key is reserved for A, every claim on it by another
\* identity returns DomainReserved with A and the reservation survives, and a
\* claim by A with valid inputs is not rejected because of the reservation.
C4_AnyClaimByOthersIsDomainReserved ==
    \A k \in DOMAIN reservedDomainsStorage, c \in Principals : \A p \in ClaimsOn(k) :
        LET out == claim(c, p)
        IN  /\ c # reservedDomainsStorage[k] =>
                   /\ Is(out.ret, "DomainReserved", reservedDomainsStorage[k])
                   /\ out.reserved = reservedDomainsStorage
            /\ (c = reservedDomainsStorage[k] /\ p \in AcceptableClaims) =>
                   out.ret.variant # "DomainReserved"

\* C4 amended: while a key is reserved for A, every claim on it with a valid
\* duration by another identity returns DomainReserved with A, every claim on
\* it by another identity leaves the reservation in place, and a claim by A
\* with valid inputs is not rejected because of the reservation.
C4_ReservationBlocksOthersOnly ==
    \A k \in DOMAIN reservedDomainsStorage, c \in Principals : \A p \in ClaimsOn(k) :
        LET out == claim(c, p)
        IN  /\ c # reservedDomainsStorage[k] =>
                   /\ p \in AcceptableClaims =>
                          Is(out.ret, "DomainReserved", reservedDomainsStorage[k])
                   /\ out.reserved = reservedDomainsStorage
            /\ (c = reservedDomainsStorage[k] /\ p \in AcceptableClaims) =>
                   out.ret.variant # "DomainReserved"

\* a key reserved by the administrator for somebody else: a third identity
\* is turned away and the reserved identity is let through
C4_Witness ==
    /\ last.method = "reserve"
    /\ \E k \in DOMAIN reservedDomainsStorage, c \in Principals : \E p \in ClaimsOn(k) :
           /\ reservedDomainsStorage[k] # owner
           /\ c # reservedDomainsStorage[k]
           /\ claim(c, p).ret.variant = "DomainReserved"
           /\ IsOk(claim(reservedDomainsStorage[k], p).ret)

\* C5: a successful claim by the reserved identity leaves no reservation for
\* the key, and a key that has a record is never answered DomainReserved,
\* whoever claims it and whether its record is active, expired or revoked.
C5_ReservationConsumedForGood ==
    /\ \A k \in DOMAIN reservedDomainsStorage : \A p \in ClaimsOn(k) :
           LET out == claim(reservedDomainsStorage[k], p)
           IN  IsOk(out.ret) => ~containsKey(out.reserved, k)
    /\ \A k \in DOMAIN domainsStorage, c \in Principals : \A p \in ClaimsOn(k) :
           /\ ~Reserved(k)
           /\ claim(c, p).ret.variant # "DomainReserved"

\* one key reserved for an identity whose claim consumes the reservation,
\* beside a key whose record has expired or been revoked and which another
\* identity claims with success
C5_Witness ==
    /\ \E k \in DOMAIN reservedDomainsStorage : \E p \in ClaimsOn(k) :
           LET out == claim(reservedDomainsStorage[k], p)
           IN  /\ reservedDomainsStorage[k] # owner
               /\ IsOk(out.ret)
               /\ ~containsKey(out.reserved, k)
    /\ \E k \in DOMAIN domainsStorage, c \in Principals : \E p \in ClaimsOn(k) :
           /\ ~Active(k)
           /\ c # domainsStorage[k].owner
           /\ IsOk(claim(c, p).ret)

\* C6: for every caller who is not the canister owner, whatever the name, the
\* extension, the wallet and the registry hold, reserve returns
\* CallerNotCanisterOwner with the caller and leaves the reservations alone;
\* so a reserve that returns Ok was called by the canister owner.
C6_ReserveOnlyByCanisterOwner ==
    \A c \in Principals, p \in ReserveInputs :
        LET out == reserve(c, p)
        IN  /\ c # owner =>
                   /\ Is(out.ret, "CallerNotCanisterOwner", c)
                   /\ out.reserved = reservedDomainsStorage
            /\ IsOk(out.ret) => c = owner

\* a registry with a record and a reservation, where the very payload that the
\* canister owner gets accepted is refused to another caller
C6_Witness ==
    /\ domainsStorage # EmptyMap
    /\ reservedDomainsStorage # EmptyMap
    /\ \E c \in Principals \ {owner}, p \in ReserveInputs :
           /\ IsOk(reserve(owner, p).ret)
           /\ reserve(c, p).ret.variant = "CallerNotCanisterOwner"

\* C7: a reserve by the canister owner on a key that has a record, whether
\* the record is active, expired or revoked, returns DomainAlreadyClaimed with
\* the record's owner and leaves the reservations alone.
C7_StoredRecordBarsReserve ==
    \A p \in ReserveInputs :
        (WellFormed(p) /\ Stored(KeyOf(p))) =>
            LET out == reserve(owner, p)
            IN  /\ Is(out.ret, "DomainAlreadyClaimed", domainsStorage[KeyOf(p)].owner)
                /\ out.reserved = reservedDomainsStorage

\* a record that is no longer active, which the canister owner tries to reserve
C7_Witness ==
    \E p \in ReserveInputs :
        /\ WellFormed(p)
        /\ Stored(KeyOf(p))
        /\ ~Active(KeyOf(p))
        /\ reserve(owner, p).ret.variant = "DomainAlreadyClaimed"

\* C8 as stated: on a stored record, transfer returns Ok only to the owner of
\* an active record, CallerNotDomainOwner to every other caller and
\* DomainOwnershipExpired to the owner of a record with validUntil < now; and
\* once a transfer has given the record to somebody else, the former owner's
\* next transfer returns CallerNotDomainOwner.
C8_TransferOnlyByActiveOwner ==
    \A k \in DOMAIN domainsStorage, c \in Principals, n \in Principals :
        LET domain == domainsStorage[k]
            out == transfer(c, k, n)
        IN  /\ IsOk(out.ret) => (c = domain.owner /\ GE(domain.validUntil, now))
            /\ c # domain.owner => Is(out.ret, "CallerNotDomainOwner", c)
            /\ (c = domain.owner /\ LT(domain.validUntil, now)) =>
                   Is(out.ret, "DomainOwnershipExpired", domain.owner)
            /\ (last.method = "transfer" /\ last.ret.value = k
                  /\ c = last.caller /\ c # domain.owner) =>
                   Is(out.ret, "CallerNotDomainOwner", c)

\* C9: a transfer that returns Ok stores under the key a record with id the
\* key, owner newOwner, updatedAt now and the validUntil it had, appends to no
\* other key's history, and leaves the reservations and the records and
\* histories of all other keys as they are.
C9_TransferFrame ==
    \A c \in Principals, k \in KeyInputs, n \in Principals :
        LET out == transfer(c, k, n)
        IN  IsOk(out.ret) =>
                /\ out.domains[k].owner = n
                /\ out.domains[k].updatedAt = now
                /\ out.domains[k].validUntil = domainsStorage[k].validUntil
                /\ out.domains[k].id = k
                /\ out.reserved = reservedDomainsStorage
                /\ DOMAIN out.domains = DOMAIN domainsStorage
                /\ DOMAIN out.history = DOMAIN domainHistoryStorage
                /\ \A j \in DOMAIN domainsStorage \ {k} :
                       out.domains[j] = domainsStorage[j]
                /\ \A j \in DOMAIN domainHistoryStorage \ {k} :
                       out.history[j] = domainHistoryStorage[j]

\* two keys hold records, one is reserved no more, time has passed since the
\* claim, and the owner of one record hands it to somebody else
C9_Witness ==
    \E k \in DOMAIN domainsStorage, j \in DOMAIN domainsStorage, n \in Principals :
        /\ j # k
        /\ n # domainsStorage[k].owner
        /\ domainsStorage[k].updatedAt # now
        /\ IsOk(transfer(domainsStorage[k].owner, k, n).ret)

\* C10 as stated: on a stored record, revoke returns Ok to the owner whatever
\* validUntil is; to any other caller it returns Ok exactly when validUntil <=
\* now, and DomainStillValid with the owner otherwise.
C10_RevokeByOwnerOrAfterExpiry ==
    \A k \in DOMAIN domainsStorage, c \in Principals :
        LET domain == domainsStorage[k]
            out == revoke(c, k)
        IN  /\ c = domain.owner => IsOk(out.ret)
            /\ c # domain.owner =>
                   /\ IsOk(out.ret) <=> LE(domain.validUntil, now)
                   /\ GT(domain.validUntil, now) =>
                          Is(out.ret, "DomainStillValid", domain.owner)

\* what remains of C8 and C10 on the records whose key the combined-key
\* validation accepts
C8_OnValidatedKeys ==
    \A k \in DOMAIN domainsStorage, c \in Principals, n \in Principals :
        isDomainKeyValid(k) =>
            LET domain == domainsStorage[k]
                out == transfer(c, k, n)
            IN  /\ IsOk(out.ret) => (c = domain.owner /\ GE(domain.validUntil, now))
                /\ c # domain.owner => Is(out.ret, "CallerNotDomainOwner", c)
                /\ (c = domain.owner /\ LT(domain.validUntil, now)) =>
                       Is(out.ret, "DomainOwnershipExpired", domain.owner)

C10_OnValidatedKeys ==
    \A k \in DOMAIN domainsStorage, c \in Principals :
        isDomainKeyValid(k) =>
            LET domain == domainsStorage[k]
                out == revoke(c, k)
            IN  /\ c = domain.owner => IsOk(out.ret)
                /\ c # domain.owner =>
                       /\ IsOk(out.ret) <=> LE(domain.validUntil, now)
                       /\ GT(domain.validUntil, now) =>
                              Is(out.ret, "DomainStillValid", domain.owner)

----------------------------------------------------------------------------
\* the newest entry of a history
Newest(history) == history[Len(history)]

\* C11: a revoke that returns Ok stores validUntil = 0 and the owner the record
\* had; and as long as that revoke is the last call that succeeded, at the
\* same instant or later, every claim on the key with valid name, extension
\* and duration returns Ok, whoever calls.
C11_RevokedKeyIsClaimable ==
    /\ \A c \in Principals, k \in KeyInputs :
           LET out == revoke(c, k)
           IN  IsOk(out.ret) =>
                   /\ out.domains[k].validUntil = Zero64
                   /\ out.domains[k].owner = domainsStorage[k].owner
    /\ last.method = "revoke" =>
           /\ domainsStorage[last.ret.value].validUntil = Zero64
           /\ \A c \in Principals : \A p \in ClaimsOn(last.ret.value) :
                  p \in AcceptableClaims => IsOk(claim(c, p).ret)

\* a revoke has just succeeded and the clock has not moved since
C11_Witness ==
    /\ last.method = "revoke"
    /\ domainsStorage[last.ret.value].updatedAt = now
    /\ \E c \in Principals : \E p \in ClaimsOn(last.ret.value) :
           /\ c # domainsStorage[last.ret.value].owner
           /\ IsOk(claim(c, p).ret)

\* C12 as stated: the history entry a successful revoke appends names the
\* owner the record had before the revoke, whoever the caller is.
C12_RevokeEntryNamesFormerOwner ==
    \A c \in Principals, k \in KeyInputs :
        LET out == revoke(c, k)
        IN  IsOk(out.ret) =>
                Newest(out.history[k]).owner = domainsStorage[k].owner

\* what the code does: the entry names the caller of revoke
C12_RevokeEntryNamesCaller ==
    \A c \in Principals, k \in KeyInputs :
        LET out == revoke(c, k)
        IN  IsOk(out.ret) => Newest(out.history[k]).owner = c

\* the length of the history of a key, 0 when none is stored
HistoryLength(domainKey) ==
    IF containsKey(domainHistoryStorage, domainKey)
    THEN Len(domainHistoryStorage[domainKey])
    ELSE 0

\* the successful mutations counted on a key, 0 when none
CommittedOn(domainKey) ==
    IF containsKey(committed, domainKey) THEN committed[domainKey] ELSE 0

\* the outcome holds one more entry on the key and the other histories as they are
OneEntryAdded(out, domainKey) ==
    /\ DOMAIN out.history = DOMAIN domainHistoryStorage \cup {domainKey}
    /\ Len(out.history[domainKey]) = HistoryLength(domainKey) + 1
    /\ \A k \in DOMAIN domainHistoryStorage \ {domainKey} :
           out.history[k] = domainHistoryStorage[k]

\* a mutation adds one entry when it returns Ok and none when it fails
OneEntryPerSuccess(out) ==
    IF IsOk(out.ret)
    THEN OneEntryAdded(out, out.ret.value)
    ELSE out.history = domainHistoryStorage

\* C13: for every key the length of the stored history equals the number of
\* claim, revoke and transfer calls on the key that returned Ok (no history
\* stored for 0); every such call adds exactly one entry when it returns Ok
\* and none when it fails, and reserve adds none.
C13_HistoryCountsCommittedMutations ==
    /\ \A k \in KeyInputs \cup DOMAIN domainHistoryStorage \cup DOMAIN committed :
           /\ HistoryLength(k) = CommittedOn(k)
           /\ containsKey(domainHistoryStorage, k) => HistoryLength(k) > 0
    /\ \A c \in Principals :
           /\ \A p \in ClaimInputs : OneEntryPerSuccess(claim(c, p))
           /\ \A k \in KeyInputs : OneEntryPerSuccess(revoke(c, k))
           /\ \A k \in KeyInputs, n \in Principals :
                  OneEntryPerSuccess(transfer(c, k, n))
           /\ \A p \in ReserveInputs :
                  reserve(c, p).history = domainHistoryStorage

\* a key with two successful mutations, the second a revoke or a transfer,
\* beside a key with none, on which a revoke fails
C13_Witness ==
    /\ last.method \in {"revoke", "transfer"}
    /\ CommittedOn(last.ret.value) = 2
    /\ HistoryLength(last.ret.value) = 2
    /\ \E k \in KeyInputs :
           /\ CommittedOn(k) = 0
           /\ IsErr(revoke(last.caller, k).ret)

\* s is an initial part of t
Prefix(s, t) == Len(s) <= Len(t) /\ SubSeq(t, 1, Len(s)) = s

\* a step keeps every stored history as an initial part of the new one
HistoryKept ==
    \A k \in DOMAIN domainHistoryStorage :
        /\ containsKey(domainHistoryStorage', k)
        /\ Prefix(domainHistoryStorage[k], domainHistoryStorage'[k])

\* the entries of every history are in the order of their createdAt
CreatedAtOrdered ==
    \A k \in DOMAIN domainHistoryStorage :
        \A i, j \in 1..Len(domainHistoryStorage[k]) :
            i <= j => LE(domainHistoryStorage[k][i].createdAt,
                         domainHistoryStorage[k][j].createdAt)

\* C14: histories are append-only: on every step the history a key had is an
\* initial part of the history it has afterwards; and, the clock never going
\* back, the createdAt values of a history never decrease along it.
C14_HistoryAppendOnly == [][HistoryKept]_vars /\ []CreatedAtOrdered

\* a history of two entries written at different times
C14_Witness ==
    \E k \in DOMAIN domainHistoryStorage :
        /\ Len(domainHistoryStorage[k]) = 2
        /\ LT(domainHistoryStorage[k][1].createdAt,
              domainHistoryStorage[k][2].createdAt)

\* C15 as stated: a key whose whole history is one claim, made at time t for
\* duration d, is reported not claimable (Ok(false)) while now <= t + d and
\* claimable (Ok(true)) once now > t + d.
C15_ClaimableExactlyAfterExpiry ==
    \A k \in DOMAIN domainHistoryStorage :
        Len(domainHistoryStorage[k]) = 1 =>
            \E duration \in CommittedDurations :
                Is(getIsClaimable(k), "Ok",
                   GT(now, Plus(domainHistoryStorage[k][1].createdAt, duration)))

\* the same on the keys isDomainKeyValid accepts
C15_OnValidatedKeys ==
    \A k \in DOMAIN domainHistoryStorage :
        (Len(domainHistoryStorage[k]) = 1 /\ isDomainKeyValid(k)) =>
            \E duration \in CommittedDurations :
                Is(getIsClaimable(k), "Ok",
                   GT(now, Plus(domainHistoryStorage[k][1].createdAt, duration)))

\* a validated key claimed once: at the instant of expiry and after it
C15_AtExpiry ==
    \E k \in DOMAIN domainHistoryStorage :
        /\ Len(domainHistoryStorage[k]) = 1 /\ isDomainKeyValid(k)
        /\ now = domainsStorage[k].validUntil

C15_AfterExpiry ==
    \E k \in DOMAIN domainHistoryStorage :
        /\ Len(domainHistoryStorage[k]) = 1 /\ isDomainKeyValid(k)
        /\ GT(now, domainsStorage[k].validUntil)

\* the records a user owns, whatever their validity
OwnedBy(user) ==
    {domainsStorage[k] : k \in {x \in DOMAIN domainsStorage :
                                    domainsStorage[x].owner = user}}

\* the elements of a sequence
Elements(seq) == {seq[i] : i \in 1..Len(seq)}

\* C16: reverseLookup(user) returns Ok with exactly the stored records whose
\* owner is user, each once, be they active, expired or revoked, and the
\* empty sequence when user owns none.
C16_ReverseLookupIsOwnedRecords ==
    \A user \in Principals :
        LET ret == reverseLookup(user)
        IN  /\ IsOk(ret)
            /\ Elements(ret.value) = OwnedBy(user)
            /\ Len(ret.value) = Cardinality(OwnedBy(user))

\* one user owns an expired record, another an active one, a third none
C16_Witness ==
    \E u, v, w \in Principals :
        /\ \E k \in DOMAIN domainsStorage :
               /\ ~Active(k)
               /\ reverseLookup(u).value = <<domainsStorage[k]>>
        /\ \E k \in DOMAIN domainsStorage :
               /\ Active(k)
               /\ reverseLookup(v).value = <<domainsStorage[k]>>
        /\ reverseLookup(w).value = <<>>

\* neither a record nor a reservation bars the caller from the key
Claimable(key, caller) ==
    /\ ~Active(key)
    /\ Reserved(key) => reservedDomainsStorage[key] = caller

\* C17: a claim with duration MIN_DURATION - 1 or MAX_DURATION + 1 returns
\* InvalidDuration with that duration, whatever the name, the extension and
\* the state of the key (the duration is checked first); with valid name and
\* extension on a key nothing bars, a claim with duration exactly
\* MIN_DURATION or exactly MAX_DURATION returns Ok.
C17_DurationBounds ==
    \A c \in Principals, p \in ClaimInputs :
        LET out == claim(c, p)
        IN  /\ p.duration \in {Pred(MIN_DURATION), Succ(MAX_DURATION)} =>
                   Is(out.ret, "InvalidDuration", p.duration)
            /\ ( /\ p.duration \in {MIN_DURATION, MAX_DURATION}
                 /\ WellFormed(p)
                 /\ Claimable(KeyOf(p), c) ) =>
                   /\ IsOk(out.ret)
                   /\ out.domains[KeyOf(p)].validUntil = Plus(now, p.duration)

\* beside an active record, on which a claim one over the maximum is turned
\* down for its duration, a reserved key its identity can claim for the maximum
C17_Witness ==
    /\ \E c \in Principals, p \in ClaimInputs :
           /\ WellFormed(p) /\ Active(KeyOf(p))
           /\ p.duration = Succ(MAX_DURATION)
           /\ Is(claim(c, p).ret, "InvalidDuration", p.duration)
    /\ \E c \in Principals, p \in ClaimInputs :
           /\ WellFormed(p) /\ Reserved(KeyOf(p))
           /\ p.duration = MAX_DURATION
           /\ IsOk(claim(c, p).ret)

\* the name and the extension isDomainKeyValid reads out of a key
NameOf(domainKey) == split(domainKey)[1]

ExtensionOf(domainKey) ==
    IF Len(split(domainKey)) >= 2 THEN split(domainKey)[2] ELSE undefined

\* the key of name and extension passes isDomainKeyValid and splits back
\* into the two
RoundTrip(name, extension) ==
    LET domainKey == getDomainKey(name, extension)
    IN  /\ isDomainKeyValid(domainKey)
        /\ NameOf(domainKey) = name
        /\ ExtensionOf(domainKey) = extension

\* C18 as stated: for every name and extension claim and reserve accept
\* (length 3 to 40, extension in the supported list) the key built from them
\* passes isDomainKeyValid and splits back into the same name and extension;
\* so does the key of every claim and reserve that returns Ok.
C18_AcceptedKeyRoundTrips ==
    /\ \A name \in NameInputs, extension \in ExtensionInputs :
           (isDomainNameValid(name) /\ isDomainExtensionValid(extension)) =>
               RoundTrip(name, extension)
    /\ \A c \in Principals :
           /\ \A p \in ClaimInputs :
                  IsOk(claim(c, p).ret) => RoundTrip(p.name, p.extension)
           /\ \A p \in ReserveInputs :
                  IsOk(reserve(c, p).ret) => RoundTrip(p.name, p.extension)

\* the same for the names without a separator
C18_OnSeparatorFreeNames ==
    \A name \in NameInputs, extension \in ExtensionInputs :
        ( /\ isDomainNameValid(name) /\ isDomainExtensionValid(extension)
          /\ \A i \in DOMAIN name : name[i] # "." ) =>
            RoundTrip(name, extension)

\* the record a claim by caller for duration at the present time is to store
FreshRecord(key, caller, duration) ==
    [id |-> key,
     owner |-> caller,
     validUntil |-> Plus(now, duration),
     updatedAt |-> now]

\* C20: on a key whose record has expired (validUntil < now), a claim with
\* valid name, extension and duration returns Ok for every caller, the former
\* owner included, and stores owner = caller, validUntil = now + duration,
\* updatedAt = now, which is the record the same claim stores on a key never
\* claimed nor reserved.
C20_ExpiredRecordIsReclaimable ==
    \A c \in Principals, p \in AcceptableClaims :
        LET k == KeyOf(p)
            out == claim(c, p)
        IN  /\ (Stored(k) /\ LT(domainsStorage[k].validUntil, now)) =>
                   /\ Is(out.ret, "Ok", k)
                   /\ out.domains[k] = FreshRecord(k, c, p.duration)
            /\ (~Stored(k) /\ ~Reserved(k)) =>
                   /\ Is(out.ret, "Ok", k)
                   /\ out.domains[k] = FreshRecord(k, c, p.duration)

\* a record that ran out by itself, which its former owner and another
\* identity can both claim
C20_Witness ==
    \E k \in DOMAIN domainsStorage :
        /\ domainsStorage[k].validUntil # Zero64
        /\ LT(domainsStorage[k].validUntil, now)
        /\ \E c \in Principals : \E p \in ClaimsOn(k) :
               /\ c # domainsStorage[k].owner
               /\ p.duration = MAX_DURATION
               /\ IsOk(claim(c, p).ret)
               /\ IsOk(claim(domainsStorage[k].owner, p).ret)

\* the history entry tells of the mutation that made the record what it is
TellsOf(entry, domain) ==
    /\ entry.validUntil = domain.validUntil
    /\ entry.createdAt = domain.updatedAt
    /\ entry.validUntil # Zero64 => entry.owner = domain.owner

\* C19: with every write of claim, revoke and transfer a step of its own, at
\* every point, between the writes of a call included, the history of every
\* stored record holds the entry of the mutation the record reflects: the
\* entry is written before the record.
C19_HistoryWrittenBeforeRecord ==
    \A k \in DOMAIN domainsStorage :
        /\ containsKey(domainHistoryStorage, k)
        /\ \E i \in 1..Len(domainHistoryStorage[k]) :
               TellsOf(domainHistoryStorage[k][i], domainsStorage[k])

\* between the two writes of a revoke or a transfer: the entry is in the
\* history, the record is still the one of the mutation before
C19_Witness ==
    /\ pending # Idle
    /\ pending.call.method \in {"revoke", "transfer"}
    /\ Head(pending.writes).map = "domains"
    /\ LET k == pending.call.ret.value
       IN  /\ Len(domainHistoryStorage[k]) = 2
           /\ domainsStorage[k] # Head(pending.writes).content[k]
           /\ TellsOf(domainHistoryStorage[k][1], domainsStorage[k])
           /\ TellsOf(domainHistoryStorage[k][2], Head(pending.writes).content[k])

\* what the boundary now = validUntil asks of the calls on the key of a record
BoundaryBehaviour(k) ==
    /\ \A c \in Principals : \A p \in ClaimsOn(k) :
           p \in AcceptableClaims =>
               Is(claim(c, p).ret, "DomainAlreadyClaimed", domainsStorage[k].owner)
    /\ \A c \in Principals \ {domainsStorage[k].owner} :
           Is(revoke(c, k).ret, "Ok", k)
    /\ \A n \in Principals :
           Is(transfer(domainsStorage[k].owner, k, n).ret, "Ok", k)
    /\ Is(getIsClaimable(k), "Ok", FALSE)

\* C21 as stated: when now = validUntil of a stored record, a claim on its
\* key is refused with DomainAlreadyClaimed for every caller, a revoke by an
\* identity other than the owner returns Ok, a transfer by the owner returns
\* Ok, and getIsClaimable returns Ok(false).
C21_AtTheBoundary ==
    \A k \in DOMAIN domainsStorage :
        domainsStorage[k].validUntil = now => BoundaryBehaviour(k)

\* the same on the keys isDomainKeyValid accepts
C21_OnValidatedKeys ==
    \A k \in DOMAIN domainsStorage :
        (domainsStorage[k].validUntil = now /\ isDomainKeyValid(k)) =>
            BoundaryBehaviour(k)

\* a record on a validated key at the instant now = validUntil
C21_BoundaryReached ==
    \E k \in DOMAIN domainsStorage :
        domainsStorage[k].validUntil = now /\ isDomainKeyValid(k)

\* keys with one separator, with two and with none
CombinedKeyInputs ==
    KeyInputs \cup {getDomainKey(getDomainKey(Txt_abc, Txt_icp), Txt_ic),
                    getDomainKey(getDomainKey(Txt_abc, Txt_ic), Txt_icp),
                    getDomainKey(Txt_abc, Txt_com)}

\* the text after the first separator of a key, undefined when it has none
AfterFirstSeparator(domainKey) ==
    IF \A i \in DOMAIN domainKey : domainKey[i] # "."
    THEN undefined
    ELSE LET i == CHOOSE j \in DOMAIN domainKey :
                      domainKey[j] = "." /\ \A m \in 1..(j - 1) : domainKey[m] # "."
         IN  SubSeq(domainKey, i + 1, Len(domainKey))

\* every method that takes a key turns the key down
RejectedEverywhere(domainKey) ==
    /\ \A c \in Principals :
           /\ Is(revoke(c, domainKey).ret, "InvalidDomainKey", domainKey)
           /\ \A n \in Principals :
                  Is(transfer(c, domainKey, n).ret, "InvalidDomainKey", domainKey)
    /\ Is(getDomain(domainKey), "InvalidDomainKey", domainKey)
    /\ Is(getDomainHistory(domainKey), "InvalidDomainKey", domainKey)
    /\ Is(lookup(domainKey), "InvalidDomainKey", domainKey)
    /\ Is(getIsClaimable(domainKey), "InvalidDomainKey", domainKey)

\* C22 as stated: a key whose text after its first separator is not one of the
\* supported extensions, a text with a further separator included, is turned
\* down with InvalidDomainKey by revoke, transfer, getDomain,
\* getDomainHistory, lookup and getIsClaimable.
C22_SplitOnFirstSeparator ==
    \A k \in CombinedKeyInputs :
        ~isDomainExtensionValid(AfterFirstSeparator(k)) => RejectedEverywhere(k)

\* what the code does: the key is turned down exactly when its first piece is
\* not a valid name or its second piece, up to the second separator, is not a
\* supported extension
C22_SecondPieceOnly ==
    \A k \in CombinedKeyInputs :
        IF isDomainNameValid(NameOf(k)) /\ isDomainExtensionValid(ExtensionOf(k))
        THEN /\ \A c \in Principals : ~Is(revoke(c, k).ret, "InvalidDomainKey", k)
             /\ ~Is(getDomain(k), "InvalidDomainKey", k)
             /\ ~Is(getDomainHistory(k), "InvalidDomainKey", k)
             /\ ~Is(lookup(k), "InvalidDomainKey", k)
             /\ ~Is(getIsClaimable(k), "InvalidDomainKey", k)
        ELSE RejectedEverywhere(k)

\* C23: no key has a reservation and a record at once, be the record active,
\* expired or revoked.
C23_ReservationAndRecordExclusive ==
    \A k \in DOMAIN reservedDomainsStorage : ~Stored(k)

\* a reservation beside a record that is no longer active, on whose key
\* reserve is refused, while its identity can turn the reservation into a
\* record
C23_Witness ==
    /\ \E p \in ReserveInputs :
           /\ WellFormed(p)
           /\ Stored(KeyOf(p)) /\ ~Active(KeyOf(p))
           /\ IsErr(reserve(owner, p).ret)
    /\ \E k \in DOMAIN reservedDomainsStorage : \E p \in ClaimsOn(k) :
           LET out == claim(reservedDomainsStorage[k], p)
           IN  /\ IsOk(out.ret)
               /\ containsKey(out.domains, k)
               /\ ~containsKey(out.reserved, k)

\* the call returned an error and left the record and the history of the key
Refused(out, k) ==
    /\ IsErr(out.ret)
    /\ out.domains[k] = domainsStorage[k]
    /\ out.history[k] = domainHistoryStorage[k]

\* C24 as stated: while a record is Active (validUntil >= now), every claim,
\* revoke and transfer on its key by an identity other than its owner returns
\* an error and leaves the record and its history as they are.
C24_ActiveRecordShutToOthers ==
    \A k \in DOMAIN domainsStorage :
        Active(k) =>
            \A c \in Principals \ {domainsStorage[k].owner} :
                /\ \A p \in ClaimsOn(k) : Refused(claim(c, p), k)
                /\ Refused(revoke(c, k), k)
                /\ \A n \in Principals : Refused(transfer(c, k, n), k)

\* C24 amended: the same, except that revoke by another identity is refused
\* only while validUntil > now; at validUntil = now the record is still
\* Active and claim and transfer by others are still refused.
C24_ShutToOthersButRevokeAtTheBoundary ==
    \A k \in DOMAIN domainsStorage :
        Active(k) =>
            \A c \in Principals \ {domainsStorage[k].owner} :
                /\ \A p \in ClaimsOn(k) : Refused(claim(c, p), k)
                /\ GT(domainsStorage[k].validUntil, now) => Refused(revoke(c, k), k)
                /\ \A n \in Principals : Refused(transfer(c, k, n), k)

\* a record with validUntil > now, which another identity fails to revoke,
\* beside a record with validUntil = now, which another identity revokes
C24_Witness ==
    /\ \E k \in DOMAIN domainsStorage :
           /\ GT(domainsStorage[k].validUntil, now)
           /\ \E c \in Principals \ {domainsStorage[k].owner} :
                  Refused(revoke(c, k), k)
    /\ \E k \in DOMAIN domainsStorage :
           /\ domainsStorage[k].validUntil = now
           /\ \E c \in Principals \ {domainsStorage[k].owner} :
                  /\ IsOk(revoke(c, k).ret)
                  /\ \A n \in Principals :
                         transfer(c, k, n).ret.variant = "CallerNotDomainOwner"

\* the step changed the owner of the record of k, and was neither a claim of k
\* called by the new owner nor a transfer of k called by the old one
OwnerTakenOver(k) ==
    /\ domainsStorage'[k].owner # domainsStorage[k].owner
    /\ ~ ( /\ last'.method = "claim"
           /\ last'.caller = domainsStorage'[k].owner
           /\ Is(last'.ret, "Ok", k) )
    /\ ~ ( /\ last'.method = "transfer"
           /\ last'.caller = domainsStorage[k].owner
           /\ Is(last'.ret, "Ok", k) )

\* C25: every step that changes the owner of a stored record from X to
\* another identity Y is a claim on the key called by Y or a transfer of the
\* key called by X; so no identity makes a third party the owner of a record
\* it does not own, and a revoke leaves the owner as it is.  Records are
\* never removed.
C25_OwnerChangesByClaimOrTransferOnly ==
    [][\A k \in DOMAIN domainsStorage :
           /\ containsKey(domainsStorage', k)
           /\ ~OwnerTakenOver(k)]_vars

\* a transfer has handed the record of an identity to another one, as the
\* history of the key tells
C25_Witness ==
    /\ last.method = "transfer"
    /\ LET k == last.ret.value
       IN  /\ Len(domainHistoryStorage[k]) = 2
           /\ domainHistoryStorage[k][1].owner = last.caller
           /\ domainsStorage[k].owner # last.caller
           /\ \E c \in Principals \ {domainsStorage[k].owner} : \E p \in ClaimsOn(k) :
                  IsErr(claim(c, p).ret)

====
